---------------------------- MODULE Spec2Model ----------------------------
(***************************************************************************)
(* Greedy submodular selection of apricot: FacilityLocationSelection.fit   *)
(* (src/apricot/facilityLocation.py) and FeatureBasedSelection.fit         *)
(* (src/apricot/featureBased.py), as one state machine.  A selector is     *)
(* constructed with a configuration, fit is called on a dataset, and the   *)
(* call runs the dense rounds, seeds the priority queue, runs the lazy     *)
(* rounds and either returns (self.ranking assigned) or raises.            *)
(*                                                                         *)
(* Indices are the program's: items are 0..n-1.  Vectors and matrices are  *)
(* sequences, so item idx is element idx+1.  float64 values are fixed      *)
(* point numbers with Scale units to 1.0 in the feature based variant.     *)
(***************************************************************************)
EXTENDS Integers, Sequences, FiniteSets, TLC

\* ------------------------------------------------------------------ bounds
\* Number of items (rows) of the generated datasets.
N == 3
\* Largest pairwise similarity of the generated similarity matrices.
MaxVal == 1

\* float64 as fixed point: Scale units are 1.0 (720720 = lcm(1..16), so
\* 1/(1+x) is exact for x <= 15).
Scale == 720720

\* Python's None for best_idx (-1 is a value select_custom_next returns).
NoneIdx == -2

\* The two objective variants and the transforms of the feature based one.
Kinds == {"FL", "FB"}
Funcs == {"sqrt", "log", "min", "inverse", "custom"}

\* How the priority queue orders entries of equal weight: its contract leaves
\* that open; the order is fixed for the life of a selector.
TieBreaks == {"low", "high"}

VARIABLES
  kind,                   \* which class the selector is
  func,                   \* self.concave_func_name ("none" for FL)
  data,                   \* the dataset handed to fit
  n_samples,              \* self.n_samples (k)
  n_greedy_samples,       \* self.n_greedy_samples
  verbose,                \* self.verbose
  tie,                    \* the queue's order among equal weights
  pq,                     \* self.pq: item -> weight (weight = -gain)
  self_ranking,           \* self.ranking (<<NoneIdx>> stands for unassigned)
  pc,                     \* position inside fit
  err,                    \* the exception fit raised ("" if none)
  X,                      \* X_pairwise (FL) or X (FB) inside fit
  mask, ranking, current_values, current_concave_values,
  gains,                  \* the gain vector (<<>> while the name is unbound)
  best_idx, best_gain,
  i,                      \* the loop counter of the round loops
  pbar,                   \* number of pbar.update(1) calls so far
  aggregates,             \* history: current_values after each commit
  results,                \* history: the outcome of each finished call
  pops,                   \* history: self.pq.pop() calls of the current lazy round
  recomputed,             \* history: items whose gain this lazy round recomputed
  pending                 \* prange: iterations of the kernel's loop not yet run

vars == <<kind, func, data, n_samples, n_greedy_samples, verbose, tie, pq,
          self_ranking, pc, err, X, mask, ranking, current_values,
          current_concave_values, gains, best_idx, best_gain, i, pbar,
          aggregates, results, pops, recomputed, pending>>

config == <<kind, func, data, n_samples, n_greedy_samples, verbose, tie>>

\* ----------------------------------------------------------------- helpers
Max(a, b) == IF a >= b THEN a ELSE b
Min(a, b) == IF a <= b THEN a ELSE b

RECURSIVE SumSeq(_)
SumSeq(s) == IF s = <<>> THEN 0 ELSE Head(s) + SumSeq(Tail(s))

Zeros(m) == [j \in 1..m |-> 0]

\* X.shape[0]
NRows(M) == Len(M)

\* Python's indexing with a negative index: a[-1] is the last element.
PyIndex(idx, n) == IF idx < 0 THEN idx + n ELSE idx

\* numpy.fill_diagonal(X_pairwise, 0)
FillDiagonal(M) == [r \in 1..Len(M) |-> [c \in 1..Len(M[r]) |-> IF r = c THEN 0 ELSE M[r][c]]]

\* numpy.sqrt, numpy.log(x + 1) and 1. / (1. + x) on the sums the bounded
\* datasets can reach, rounded to the fixed point unit.
SqrtTable == <<0, 720720, 1019252, 1248324, 1441440, 1611579, 1765396, 1906846,
               2038504, 2162160, 2279117, 2390358, 2496647, 2598593, 2696687,
               2791337, 2882880>>
LogTable == <<0, 499565, 791792, 999130, 1159954, 1291357, 1402456, 1498695,
              1583584, 1659519, 1728211, 1790922, 1848610, 1902021, 1951746,
              1998260, 2041954>>

\* self.concave_func, on one entry x of a float64 vector (x in data units),
\* result in fixed point units.
\* The caller-supplied transform is min(x, 2).
Phi(f, x) ==
  CASE f = "sqrt"    -> SqrtTable[x + 1]
    [] f = "log"     -> LogTable[x + 1]
    [] f = "min"     -> Min(x, 1) * Scale
    [] f = "inverse" -> Scale \div (1 + x)
    [] f = "custom"  -> Min(x, 2) * Scale

\* ------------------------------------------------------- objective: gains
\* (numpy.maximum(X[:, idx], current_values) - current_values).sum()
FLGain(M, cv, idx) ==
  SumSeq([j \in 1..Len(M) |-> Max(M[j][idx + 1], cv[j]) - cv[j]])

\* (self.concave_func(current_values + X[idx]) - current_concave_values).sum()
FBGain(f, M, cv, ccv, idx) ==
  SumSeq([c \in 1..Len(cv) |-> Phi(f, cv[c] + M[idx + 1][c]) - ccv[c]])

\* The value "a" that each dense kernel computes for one feature entry:
\* select_sqrt_next, select_log_next, select_inv_next and select_custom_next
\* apply the transform to current_values + X[idx]; select_min_next computes
\* numpy.fmin(current_values, X[idx]).
KernelA(f, c, x) ==
  IF f = "min" THEN Min(c, x) * Scale ELSE Phi(f, c + x)

\* The gain one iteration of a kernel's loop writes to gains[idx].
KernelGain(k, f, M, cv, ccv, idx) ==
  IF k = "FL"
    THEN FLGain(M, cv, idx)
    ELSE SumSeq([c \in 1..Len(cv) |-> KernelA(f, cv[c], M[idx + 1][c]) - ccv[c]])

\* The gain the lazy loop recomputes for a popped item.
LazyGain(k, f, M, cv, ccv, idx) ==
  IF k = "FL" THEN FLGain(M, cv, idx) ELSE FBGain(f, M, cv, ccv, idx)

\* The gain vector after a kernel ran over all items: the slot of a masked
\* item is skipped and keeps the zero it was created with.
KernelGains(k, f, M, cv, ccv, m) ==
  [p \in 1..NRows(M) |-> IF m[p] = 1 THEN 0 ELSE KernelGain(k, f, M, cv, ccv, p - 1)]

\* Mutant of ArgMax: the last index attaining the maximum.
ArgMaxLast(g) ==
  (CHOOSE p \in 1..Len(g) :
      /\ \A q \in 1..Len(g) : g[q] <= g[p]
      /\ \A q \in (p + 1)..Len(g) : g[q] < g[p]) - 1

\* numpy.argmax(gains): the first index attaining the maximum, over ALL slots.
ArgMax(g) ==
  (CHOOSE p \in 1..Len(g) :
      /\ \A q \in 1..Len(g) : g[q] <= g[p]
      /\ \A q \in 1..(p - 1) : g[q] < g[p]) - 1

\* select_custom_next: the first unmasked item whose gain exceeds best_gain
\* (which is 0. and is never raised) reaches "best_gain = gain", and gain is
\* not a name of that scope: NameError.  0 when there is none.
CustomOffender(g, m) ==
  LET bad == {p \in 1..Len(g) : m[p] # 1 /\ g[p] > 0}
  IN  IF bad = {} THEN 0 ELSE CHOOSE p \in bad : \A q \in bad : p <= q

\* ------------------------------------------------------ commit: aggregate
\* Mutant of UpdateValues: the column (the row) of best_idx replaces the
\* aggregate instead of being merged into it.
UpdateValuesOverwrite(k, M, cv, b) ==
  IF k = "FL"
    THEN [j \in 1..Len(cv) |-> M[j][b + 1]]
    ELSE [c \in 1..Len(cv) |-> M[b + 1][c]]

\* numpy.maximum(X_pairwise[:, best_idx], current_values)   (FL)
\* current_values += X[best_idx]                            (FB)
UpdateValues(k, M, cv, b) ==
  IF k = "FL"
    THEN [j \in 1..Len(cv) |-> Max(M[j][b + 1], cv[j])]
    ELSE [c \in 1..Len(cv) |-> cv[c] + M[b + 1][c]]

\* current_concave_values = self.concave_func(current_values)  (FB only)
UpdateConcave(k, f, cv, ccv) ==
  IF k = "FL" THEN ccv ELSE [c \in 1..Len(cv) |-> Phi(f, cv[c])]

\* mask[best_idx] = True
SetMask(m, b) == [m EXCEPT ![b + 1] = 1]

\* Mutant of AppendRanking: the new index is put in front.
PrependRanking(r, b) == <<b>> \o r

\* ranking.append(best_idx)
AppendRanking(r, b) == Append(r, b)


\* ---------------------------------------------------------- priority queue
\* self.pq is created by SubmodularSelection.__init__ (apricot/base.py).  Its
\* contract: add sets or overwrites the item's weight, pop removes and returns
\* the entry of least weight (the callers store -gain, so that is the largest
\* gain), remove deletes the item's entry.
EmptyPQ == [x \in {} |-> 0]

\* self.pq.add(item, weight)
PQAdd(q, item, w) ==
  [x \in (DOMAIN q) \cup {item} |-> IF x = item THEN w ELSE q[x]]

\* self.pq.remove(item), for an item that has an entry
PQRemove(q, item) == [x \in (DOMAIN q) \ {item} |-> q[x]]

\* The item self.pq.pop() returns, for a queue that is not empty.
PQTop(q, t) ==
  LET least == {x \in DOMAIN q : \A y \in DOMAIN q : q[x] <= q[y]}
  IN  IF t = "low"
        THEN CHOOSE x \in least : \A y \in least : x <= y
        ELSE CHOOSE x \in least : \A y \in least : x >= y

\* for idx, gain in enumerate(gains): if mask[idx] != 1: self.pq.add(idx, -gain)
RECURSIVE SeedFrom(_, _, _, _)
SeedFrom(q, g, m, p) ==
  IF p > Len(g) THEN q
  ELSE SeedFrom(IF m[p] # 1 THEN PQAdd(q, p - 1, -g[p]) ELSE q, g, m, p + 1)

\* Mutant of SeedQueue: a queue that already holds entries is not seeded.
SeedQueueOnce(q, g, m) ==
  IF DOMAIN q = {} THEN SeedFrom(q, g, m, 1) ELSE q

\* Mutant of SeedQueue: the seeding loop without its test of mask.
SeedQueueAll(q, g, m) == SeedFrom(q, g, Zeros(Len(m)), 1)

SeedQueue(q, g, m) == SeedFrom(q, g, m, 1)

\* ------------------------------------------------------------------ inputs
\* Symmetric similarity matrices as a pairwise function returns them: the
\* self-similarity on the diagonal is the largest value.
Pairs == {pr \in (1..N) \X (1..N) : pr[1] < pr[2]}

SimilarityMatrices ==
  { [r \in 1..N |-> [c \in 1..N |->
        IF r = c THEN MaxVal
        ELSE IF r < c THEN u[<<r, c>>] ELSE u[<<c, r>>]]] :
    u \in [Pairs -> 0..MaxVal] }

\* The two disjoint pairs {0,1} and {2,3}.
PairsMatrix == << <<0, 1, 0, 0>>, <<1, 0, 0, 0>>, <<0, 0, 0, 1>>, <<0, 0, 1, 0>> >>

\* Feature matrices: N items with two binary features.
FeatureValues == {0, 1}
FeatureColumns == {1, 2}
FeatureMatrices == [1..N -> [FeatureColumns -> FeatureValues]]

Datasets(k) ==
  IF k = "FL" THEN SimilarityMatrices \cup {PairsMatrix} ELSE FeatureMatrices

InitOf(ks) ==
  /\ kind \in ks
  /\ func \in (IF kind = "FL" THEN {"none"} ELSE Funcs)
  /\ data \in Datasets(kind)
  /\ n_samples \in 1..(NRows(data) + 1)
  /\ n_greedy_samples \in 0..(NRows(data) + 1)
  /\ verbose \in BOOLEAN
  /\ tie \in TieBreaks
  /\ pq = EmptyPQ
  /\ self_ranking = <<NoneIdx>>
  /\ pc = "idle"
  /\ err = ""
  /\ X = <<>>
  /\ mask = <<>>
  /\ ranking = <<>>
  /\ current_values = <<>>
  /\ current_concave_values = <<>>
  /\ gains = <<>>
  /\ best_idx = NoneIdx
  /\ best_gain = 0
  /\ i = 0
  /\ pbar = 0
  /\ aggregates = <<>>
  /\ results = <<>>
  /\ pops = 0
  /\ recomputed = <<>>
  /\ pending = {}

\* ------------------------------------------------------------------ raising
\* An exception leaves fit: self.ranking is not assigned, self.pq stays as
\* it is.
Raise(e) ==
  /\ pc' = "failed"
  /\ err' = e
  /\ results' = Append(results, <<"raised", e>>)

locals == <<X, mask, ranking, current_values, current_concave_values, gains,
            best_idx, best_gain, i, pbar, aggregates, pops, recomputed,
            pending>>

\* ------------------------------------------------------------------ actions
\* fit, from its entry to the first round: the validation of X, the progress
\* bar, X_pairwise with its diagonal zeroed, and the initial selection state.
HasNegative(M) == \E r \in 1..Len(M) : \E c \in 1..Len(M[r]) : M[r][c] < 0

FitStart ==
  /\ pc = "idle"
  /\ IF kind = "FB" /\ HasNegative(data)
       THEN /\ Raise("ValueError")
            /\ UNCHANGED <<config, pq, self_ranking, locals>>
       ELSE /\ X' = IF kind = "FL" THEN FillDiagonal(data) ELSE data
            /\ mask' = Zeros(NRows(data))
            /\ ranking' = <<>>
            /\ best_idx' = NoneIdx
            /\ best_gain' = 0
            /\ current_values' =
                 IF kind = "FL" THEN Zeros(NRows(data)) ELSE Zeros(Len(data[1]))
            /\ current_concave_values' =
                 IF kind = "FL" THEN <<>> ELSE Zeros(Len(data[1]))
            /\ gains' = <<>>
            /\ i' = 0
            /\ pbar' = IF verbose /\ kind = "FL" THEN 1 ELSE 0
            /\ aggregates' = << current_values' >>
            /\ pops' = 0
            /\ recomputed' = <<>>
            /\ pending' = {}
            /\ pc' = "dense"
            /\ UNCHANGED <<config, pq, self_ranking, err, results>>

\* One dense round up to the choice of best_idx: gains = zeros(n), then the
\* kernel fills the slots of the unmasked items and returns the argmax.
DenseSelect ==
  /\ pc = "dense"
  /\ i < n_greedy_samples
  /\ LET g   == KernelGains(kind, func, X, current_values, current_concave_values, mask)
         bad == CustomOffender(g, mask)
     IN  IF kind = "FB" /\ func = "custom"
           THEN IF bad # 0
                  THEN /\ gains' = [p \in 1..Len(g) |-> IF p <= bad THEN g[p] ELSE 0]
                       /\ Raise("NameError")
                       /\ UNCHANGED best_idx
                  ELSE /\ gains' = g
                       /\ best_idx' = -1
                       /\ pc' = "dense_commit"
                       /\ UNCHANGED <<err, results>>
           ELSE /\ gains' = g
                /\ best_idx' = ArgMax(g)
                /\ pc' = "dense_commit"
                /\ UNCHANGED <<err, results>>
  /\ UNCHANGED <<config, pq, self_ranking, X, mask, ranking, current_values,
                 current_concave_values, best_gain, i, pbar, aggregates,
                 pops, recomputed, pending>>

\* The dense round of facility location with the prange loop of select_next
\* taken apart: one worker per item, run in any order.
\* gains = numpy.zeros(n), and select_next is entered.
KernelStart ==
  /\ pc = "dense"
  /\ i < n_greedy_samples
  /\ gains' = Zeros(NRows(X))
  /\ pending' = 0..(NRows(X) - 1)
  /\ pc' = "kernel"
  /\ UNCHANGED <<config, pq, self_ranking, err, X, mask, ranking,
                 current_values, current_concave_values, best_idx, best_gain,
                 i, pbar, aggregates, results, pops, recomputed>>

\* Mutant of WorkerWrite: every worker writes slot 0.
WorkerWriteShared(g, idx, v) == [g EXCEPT ![1] = v]

\* gains[idx] = ...
WorkerWrite(g, idx, v) == [g EXCEPT ![idx + 1] = v]

\* The body of the prange loop for one idx: a masked item is skipped, the
\* gain of any other is written to its slot.
Worker(idx) ==
  /\ pc = "kernel"
  /\ idx \in pending
  /\ pending' = pending \ {idx}
  /\ gains' = IF mask[idx + 1] = 1
                THEN gains
                ELSE WorkerWrite(gains, idx,
                                 KernelGain(kind, func, X, current_values,
                                            current_concave_values, idx))
  /\ UNCHANGED <<config, pq, self_ranking, pc, err, X, mask, ranking,
                 current_values, current_concave_values, best_idx, best_gain,
                 i, pbar, aggregates, results, pops, recomputed>>

\* return numpy.argmax(gains), after the loop.
KernelEnd ==
  /\ pc = "kernel"
  /\ pending = {}
  /\ best_idx' = ArgMax(gains)
  /\ pc' = "dense_commit"
  /\ UNCHANGED <<config, pq, self_ranking, err, X, mask, ranking,
                 current_values, current_concave_values, gains, best_gain,
                 i, pbar, aggregates, results, pops, recomputed, pending>>

\* ranking.append(best_idx); mask[best_idx] = 1; the aggregate is updated.
Commit(next) ==
  LET b  == PyIndex(best_idx, NRows(X))
      cv == UpdateValues(kind, X, current_values, b)
  IN  /\ ranking' = AppendRanking(ranking, best_idx)
      /\ mask' = SetMask(mask, b)
      /\ current_values' = cv
      /\ current_concave_values' = UpdateConcave(kind, func, cv, current_concave_values)
      /\ aggregates' = Append(aggregates, cv)
      /\ pc' = next
      /\ UNCHANGED <<config, pq, self_ranking, err, X, gains, best_idx,
                     best_gain, i, pbar, results, pops, recomputed, pending>>

\* if self.verbose == True: pbar.update(1), and the loop moves on.
Progress(next) ==
  /\ pbar' = IF verbose THEN pbar + 1 ELSE pbar
  /\ i' = i + 1
  /\ pc' = next
  /\ UNCHANGED <<config, pq, self_ranking, err, X, mask, ranking,
                 current_values, current_concave_values, gains, best_idx,
                 best_gain, aggregates, results, pops, recomputed, pending>>

DenseCommit == pc = "dense_commit" /\ Commit("dense_progress")

DenseProgress == pc = "dense_progress" /\ Progress("dense")

\* The loop over enumerate(gains) between the two phases.  gains is bound by
\* the first dense round only: with no dense round the name is unbound.
Seed ==
  /\ pc = "dense"
  /\ i >= n_greedy_samples
  /\ IF gains = <<>>
       THEN /\ Raise("UnboundLocalError")
            /\ UNCHANGED <<pq, i>>
       ELSE /\ pq' = SeedQueue(pq, gains, mask)
            /\ i' = n_greedy_samples
            /\ pc' = "lazy"
            /\ UNCHANGED <<err, results>>
  /\ UNCHANGED <<config, self_ranking, X, mask, ranking, current_values,
                 current_concave_values, gains, best_idx, best_gain, pbar,
                 aggregates, pops, recomputed, pending>>

\* A lazy round begins: best_gain = 0., best_idx = None.
LazyRound ==
  /\ pc = "lazy"
  /\ i < n_samples
  /\ best_gain' = 0
  /\ best_idx' = NoneIdx
  /\ pops' = 0
  /\ recomputed' = <<>>
  /\ pc' = "pop"
  /\ UNCHANGED <<config, pq, self_ranking, err, X, mask, ranking,
                 current_values, current_concave_values, gains, i, pbar,
                 aggregates, results, pending>>

\* Mutant of CannotBeat: the strict comparison.
CannotBeatStrict(bg, pg) == bg > pg

\* if best_gain >= prev_gain: the popped key cannot beat the best gain of the
\* round, the loop is left.
CannotBeat(bg, pg) == bg >= pg

\* One iteration of "while True": pop; either the popped weight cannot beat
\* best_gain (the item is put back and the loop is left), or the item's gain
\* is recomputed, stored, and compared with best_gain.
LazyIter ==
  /\ pc = "pop"
  /\ IF DOMAIN pq = {}
       THEN /\ Raise("EmptyQueue")
            /\ UNCHANGED <<pq, best_gain, best_idx, pops, recomputed>>
       ELSE LET idx       == PQTop(pq, tie)
                prev_gain == -pq[idx]
                popped    == PQRemove(pq, idx)
                gain      == LazyGain(kind, func, X, current_values,
                                      current_concave_values, idx)
            IN  /\ pops' = pops + 1
                /\ IF CannotBeat(best_gain, prev_gain)
                     THEN /\ pq' = PQAdd(popped, idx, -prev_gain)
                          /\ pc' = "lazy_remove"
                          /\ UNCHANGED <<best_gain, best_idx, err, results,
                                         recomputed>>
                     ELSE /\ pq' = PQAdd(popped, idx, -gain)
                          /\ recomputed' = Append(recomputed, idx)
                          /\ best_gain' = IF gain > best_gain THEN gain ELSE best_gain
                          /\ best_idx' = IF gain > best_gain THEN idx ELSE best_idx
                          /\ pc' = "pop"
                          /\ UNCHANGED <<err, results>>
  /\ UNCHANGED <<config, self_ranking, X, mask, ranking, current_values,
                 current_concave_values, gains, i, pbar, aggregates, pending>>

\* self.pq.remove(best_idx) on leaving the loop; an item without an entry
\* (None) cannot be removed.
LazyRemove ==
  /\ pc = "lazy_remove"
  /\ IF best_idx \in DOMAIN pq
       THEN /\ pq' = PQRemove(pq, best_idx)
            /\ pc' = "lazy_commit"
            /\ UNCHANGED <<err, results>>
       ELSE /\ Raise("KeyError")
            /\ UNCHANGED pq
  /\ UNCHANGED <<config, self_ranking, locals>>

LazyCommit == pc = "lazy_commit" /\ Commit("lazy_progress")

LazyProgress == pc = "lazy_progress" /\ Progress("lazy")

\* pbar.close(); self.ranking = numpy.array(ranking); return self
Return ==
  /\ pc = "lazy"
  /\ i >= n_samples
  /\ self_ranking' = ranking
  /\ results' = Append(results, <<"returned", ranking>>)
  /\ pc' = "returned"
  /\ UNCHANGED <<config, pq, err, locals>>

\* fit is called a second time on the same selector with the same dataset.
Refit ==
  /\ pc \in {"returned", "failed"}
  /\ Len(results) < 2
  /\ pc' = "idle"
  /\ err' = ""
  /\ UNCHANGED <<config, pq, self_ranking, locals, results>>

Next ==
  \/ FitStart
  \/ DenseSelect
  \/ DenseCommit
  \/ DenseProgress
  \/ Seed
  \/ LazyRound
  \/ LazyIter
  \/ LazyRemove
  \/ LazyCommit
  \/ LazyProgress
  \/ Return

Init == InitOf(Kinds)

\* One call of fit, on a selector of either class.
Spec == Init /\ [][Next]_vars

\* One call of fit on a FacilityLocationSelection.
InitFL == InitOf({"FL"})

SpecFL == InitFL /\ [][Next]_vars

\* One call of fit on a FacilityLocationSelection, the workers of each
\* dense round interleaved.
NextPar ==
  \/ FitStart
  \/ KernelStart
  \/ \E idx \in pending : Worker(idx)
  \/ KernelEnd
  \/ DenseCommit
  \/ DenseProgress
  \/ Seed
  \/ LazyRound
  \/ LazyIter
  \/ LazyRemove
  \/ LazyCommit
  \/ LazyProgress
  \/ Return

SpecPar == InitFL /\ [][NextPar]_vars

\* Two calls of fit on the same selector.
NextRefit == Next \/ Refit

SpecRefit == Init /\ [][NextRefit]_vars


\* ------------------------------------------------------- derived notions
Items == 0..(NRows(data) - 1)

RankSet == {ranking[j] : j \in 1..Len(ranking)}

MaskSet == {p - 1 : p \in {q \in 1..Len(mask) : mask[q] = 1}}

Unselected == {p - 1 : p \in {q \in 1..Len(mask) : mask[q] # 1}}

Distinct(r) == Cardinality({r[j] : j \in 1..Len(r)}) = Len(r)

\* The call is past its entry: the selection state of this call exists.
InFit == pc # "idle"

Finished == pc \in {"returned", "failed"}

\* The call is between the seeding of the queue and the end of the lazy loop.
LazyPhase == pc \in {"lazy", "pop", "lazy_remove", "lazy_commit", "lazy_progress"}

\* The ranking of a run made of dense rounds only, by the kernels' own rule
\* (NoneIdx marks a round in which select_custom_next raised).
RECURSIVE DenseRun(_, _, _, _, _, _, _, _)
DenseRun(k, f, M, cv, ccv, m, r, rounds) ==
  IF rounds = 0 THEN r
  ELSE LET g   == KernelGains(k, f, M, cv, ccv, m)
           sel == IF k = "FB" /\ f = "custom"
                    THEN (IF CustomOffender(g, m) # 0 THEN NoneIdx ELSE -1)
                    ELSE ArgMax(g)
           b   == PyIndex(sel, NRows(M))
           nv  == UpdateValues(k, M, cv, b)
       IN  IF sel = NoneIdx THEN <<NoneIdx>>
           ELSE DenseRun(k, f, M, nv, UpdateConcave(k, f, nv, ccv),
                         SetMask(m, b), Append(r, sel), rounds - 1)

DenseRanking ==
  LET M == IF kind = "FL" THEN FillDiagonal(data) ELSE data
      w == IF kind = "FL" THEN NRows(data) ELSE Len(data[1])
  IN  DenseRun(kind, func, M, Zeros(w), IF kind = "FL" THEN <<>> ELSE Zeros(w),
               Zeros(NRows(data)), <<>>, n_samples)

\* fit as a function of n_samples.  The dense loop, returning the locals it
\* leaves behind (ok is FALSE when select_custom_next raised).
RECURSIVE DenseState(_, _, _, _, _, _, _, _, _)
DenseState(k, f, M, cv, ccv, m, r, g, rounds) ==
  IF rounds = 0 THEN [cv |-> cv, ccv |-> ccv, m |-> m, r |-> r, g |-> g, ok |-> TRUE]
  ELSE LET ng  == KernelGains(k, f, M, cv, ccv, m)
           sel == IF k = "FB" /\ f = "custom"
                    THEN (IF CustomOffender(ng, m) # 0 THEN NoneIdx ELSE -1)
                    ELSE ArgMax(ng)
           b   == PyIndex(sel, NRows(M))
           nv  == UpdateValues(k, M, cv, b)
       IN  IF sel = NoneIdx
             THEN [cv |-> cv, ccv |-> ccv, m |-> m, r |-> r, g |-> ng, ok |-> FALSE]
             ELSE DenseState(k, f, M, nv, UpdateConcave(k, f, nv, ccv),
                             SetMask(m, b), AppendRanking(r, sel), ng, rounds - 1)

\* The "while True" loop of one lazy round, from the queue q with the best
\* gain bg and best index bi so far: the queue and best_idx it leaves the
\* loop with (ok is FALSE when pop or remove raised).
RECURSIVE LazyLoop(_, _, _, _, _, _, _, _, _)
LazyLoop(k, f, M, cv, ccv, q, t, bg, bi) ==
  IF DOMAIN q = {} THEN [q |-> q, best |-> bi, ok |-> FALSE]
  ELSE LET idx       == PQTop(q, t)
           prev_gain == -q[idx]
           gain      == LazyGain(k, f, M, cv, ccv, idx)
       IN  IF CannotBeat(bg, prev_gain)
             THEN [q |-> q, best |-> bi, ok |-> bi \in DOMAIN q]
             ELSE LazyLoop(k, f, M, cv, ccv, PQAdd(PQRemove(q, idx), idx, -gain), t,
                           IF gain > bg THEN gain ELSE bg,
                           IF gain > bg THEN idx ELSE bi)

\* The lazy rounds: the ranking after them (<<NoneIdx>> when a round raised).
RECURSIVE LazyRun(_, _, _, _, _, _, _, _, _, _)
LazyRun(k, f, M, cv, ccv, m, r, q, t, rounds) ==
  IF rounds <= 0 THEN r
  ELSE LET out == LazyLoop(k, f, M, cv, ccv, q, t, 0, NoneIdx)
           nv  == UpdateValues(k, M, cv, out.best)
       IN  IF ~out.ok THEN <<NoneIdx>>
           ELSE LazyRun(k, f, M, nv, UpdateConcave(k, f, nv, ccv),
                        SetMask(m, out.best), AppendRanking(r, out.best),
                        PQRemove(out.q, out.best), t, rounds - 1)

\* What the first call of fit on this selector and dataset returns when
\* self.n_samples is ns (<<NoneIdx>> when it raises).
FitRanking(ns) ==
  LET M == IF kind = "FL" THEN FillDiagonal(data) ELSE data
      w == IF kind = "FL" THEN NRows(data) ELSE Len(data[1])
      d == DenseState(kind, func, M, Zeros(w),
                      IF kind = "FL" THEN <<>> ELSE Zeros(w),
                      Zeros(NRows(data)), <<>>, <<>>, n_greedy_samples)
  IN  IF ~d.ok \/ d.g = <<>> THEN <<NoneIdx>>
      ELSE LazyRun(kind, func, M, d.cv, d.ccv, d.m, d.r,
                   SeedQueue(EmptyPQ, d.g, d.m), tie, ns - n_greedy_samples)

\* ------------------------------------------------------------------ claims

\* C1: for 1 <= k <= n and 1 <= n_greedy_samples <= k, fit ends with a
\* ranking of exactly k pairwise distinct indices in 0..n-1, and after every
\* commit the indices in ranking are the indices marked in mask, with the
\* same cardinality.
C1_DistinctRanking ==
  (n_samples <= NRows(data) /\ n_greedy_samples \in 1..n_samples) =>
    /\ pc # "failed"
    /\ InFit => (RankSet = MaskSet /\ Len(ranking) = Cardinality(MaskSet))
    /\ pc = "returned" =>
         /\ Len(self_ranking) = n_samples
         /\ Distinct(self_ranking)
         /\ \A j \in 1..Len(self_ranking) : self_ranking[j] \in Items

\* C2: a run with n_greedy_samples = 0 (every round lazy) ends with the
\* ranking of the run with n_greedy_samples = k (every round dense).
C2_LazyEqualsDense ==
  (n_greedy_samples = 0 /\ Finished) =>
    (pc = "returned" /\ self_ranking = DenseRanking)

\* The scenario of C3: facility location on the two-pairs matrix, k = 2.
C3_Scenario ==
  /\ kind = "FL"
  /\ data = PairsMatrix
  /\ n_samples = 2
  /\ n_greedy_samples \in 0..2

\* C3 as stated: on the two-pairs matrix with k = 2 and n_greedy_samples in
\* 0..2 the ranking holds one index of {0,1} and one index of {2,3}.
C3_OnePerPair ==
  (C3_Scenario /\ pc = "returned") =>
    /\ Cardinality({self_ranking[j] : j \in 1..Len(self_ranking)} \cap {0, 1}) = 1
    /\ Cardinality({self_ranking[j] : j \in 1..Len(self_ranking)} \cap {2, 3}) = 1

\* C3 amended: on the two-pairs matrix with k = 2, fit with
\* n_greedy_samples = 0 raises before it selects anything; with
\* n_greedy_samples in 1..2 it returns two distinct indices that cover two
\* items, the first is 0 and the second is an index tied for the gain 1,
\* which index 1 of the same pair is: the dense run returns [0, 1].
C3_PairsAmended ==
  C3_Scenario =>
    /\ n_greedy_samples = 0 => pc # "returned"
    /\ (n_greedy_samples = 0 /\ pc = "failed") =>
         (err = "UnboundLocalError" /\ ranking = <<>>)
    /\ n_greedy_samples >= 1 => pc # "failed"
    /\ pc = "returned" =>
         /\ Len(self_ranking) = 2
         /\ self_ranking[1] = 0
         /\ self_ranking[2] \in {1, 2, 3}
         /\ SumSeq(current_values) = 2
         /\ n_greedy_samples = 2 => self_ranking = <<0, 1>>

\* C3, witness: a lazy round of the scenario picked the other index of the
\* first pair.
C3_Witness ==
  /\ C3_Scenario
  /\ n_greedy_samples = 1
  /\ pc = "returned"
  /\ self_ranking = <<0, 1>>

\* C4: with k > n and n_greedy_samples in 0..k, fit never returns.
C4_TooManyRaises ==
  (n_samples > NRows(data) /\ n_greedy_samples <= n_samples) => pc # "returned"

\* C5: fit returns a ranking of length exactly k, or raises; when it raises,
\* self.ranking is not assigned and the priority queue is as it was when the
\* call began (empty, for the first call on a selector).
C5_AllOrNothing ==
  /\ pc = "returned" => Len(self_ranking) = n_samples
  /\ pc = "failed" => (self_ranking = <<NoneIdx>> /\ pq = EmptyPQ)

\* C6: facility location: after every commit, for every item and every two
\* aggregates of the run so far, the gain against the later aggregate is at
\* most the gain against the earlier one.
C6_GainsNonIncreasing ==
  (kind = "FL" /\ pc \in {"dense_progress", "lazy_progress"}) =>
    \A t \in 1..Len(aggregates) : \A u \in t..Len(aggregates) :
      \A idx \in Items :
        FLGain(X, aggregates[u], idx) <= FLGain(X, aggregates[t], idx)

\* C6, witness: a lazy commit followed a dense one, and the gain of some item
\* dropped strictly from the aggregate before it to the aggregate after it.
C6_Witness ==
  /\ kind = "FL"
  /\ pc = "lazy_progress"
  /\ Len(aggregates) >= 3
  /\ \E idx \in Items :
       FLGain(X, aggregates[Len(aggregates)], idx)
         < FLGain(X, aggregates[Len(aggregates) - 1], idx)

\* C7: two calls of fit with the same dataset and configuration on the same
\* selector end the same way, with the same ranking.
C7_Deterministic ==
  Len(results) = 2 => results[1] = results[2]

\* C7, witness: the second call returned after lazy rounds, and it began
\* with the entries the first call left in the queue.
C7_Witness ==
  /\ Len(results) = 2
  /\ results[2][1] = "returned"
  /\ n_greedy_samples < n_samples
  /\ DOMAIN pq # {}

\* C8: with progress reporting on, the number of progress updates is the
\* length of ranking or one less, and k when fit returns.
C8_ProgressPerCommit ==
  (verbose /\ InFit) =>
    /\ pbar \in {Len(ranking), Len(ranking) - 1}
    /\ pc = "returned" => pbar = n_samples

\* C9: when the inner loop of a lazy round is left, best_idx is an
\* unselected index whose gain against the current aggregate is the largest
\* among the unselected indices.
C9_LazyExitOptimal ==
  pc = "lazy_remove" =>
    /\ best_idx # NoneIdx
    /\ best_idx \in Unselected
    /\ \A j \in Unselected :
         LazyGain(kind, func, X, current_values, current_concave_values, j)
           <= LazyGain(kind, func, X, current_values, current_concave_values, best_idx)

\* C10: the index a dense round commits is unselected, its gain is the
\* largest among the unselected indices, and it is the lowest such index.
C10_DenseArgmax ==
  pc = "dense_commit" =>
    /\ best_idx \in Unselected
    /\ \A j \in Unselected : gains[j + 1] <= gains[best_idx + 1]
    /\ \A j \in Unselected : gains[j + 1] = gains[best_idx + 1] => best_idx <= j

\* C11: in every state of the lazy phase, the key of every entry of the
\* priority queue is at least the marginal gain of its item against the
\* current aggregate.
C11_KeysAreUpperBounds ==
  LazyPhase =>
    \A item \in DOMAIN pq :
      -pq[item] >= LazyGain(kind, func, X, current_values,
                            current_concave_values, item)

\* C12: the aggregate is the function of the selected items that the data
\* model defines.  Facility location: current_values[j] is the largest
\* similarity of j to a selected item (0 with nothing selected).  Feature
\* based: current_values is the sum of the rows of the selected items, each
\* counted once, and current_concave_values is the transform of
\* current_values, from the initial state on and for every transform.
C12_AggregateOfSelection ==
  InFit =>
    /\ kind = "FL" =>
         \A j \in 1..Len(current_values) :
           LET sims == {X[j][s + 1] : s \in MaskSet} \cup {0}
           IN  current_values[j] = CHOOSE v \in sims : \A w \in sims : w <= v
    /\ kind = "FB" =>
         \A c \in 1..Len(current_values) :
           /\ current_values[c] =
                SumSeq([p \in 1..Len(mask) |-> IF mask[p] = 1 THEN X[p][c] ELSE 0])
           /\ current_concave_values[c] = Phi(func, current_values[c])

\* C13: sqrt, log, min, inverse: the gain a dense kernel writes for an
\* unselected item is the gain the lazy loop computes for that item against
\* the same aggregate.
C13_KernelGainIsObjectiveGain ==
  (kind = "FB" /\ func \in {"sqrt", "log", "min", "inverse"} /\ pc = "dense_commit") =>
    \A item \in Unselected :
      gains[item + 1] = LazyGain(kind, func, X, current_values,
                                 current_concave_values, item)

\* C14: facility location and the built-in transforms: every key that is in
\* the priority queue after seeding and after a reinsertion is >= 0.
C14_KeysNonNegative ==
  (LazyPhase /\ func # "custom") => \A item \in DOMAIN pq : -pq[item] >= 0

\* C16: with n_greedy_samples = 0 and 1 <= k <= n, fit does not fail; after
\* its seeding pass every item has a queue entry keyed by its gain against
\* the empty selection; it returns a ranking of k indices.
C16_NoDenseRoundNeeded ==
  (n_greedy_samples = 0 /\ n_samples \in 1..NRows(data)) =>
    /\ pc # "failed"
    /\ (pc = "lazy" /\ i = 0) =>
         /\ DOMAIN pq = Items
         /\ \A item \in Items :
              -pq[item] = LazyGain(kind, func, X, current_values,
                                   current_concave_values, item)
    /\ pc = "returned" => Len(self_ranking) = n_samples

\* C18: in every state of the lazy phase the priority queue holds no entry
\* for an index marked in mask; at the start of a lazy round, and until the
\* round's item is removed, its entries are the indices not marked in mask.
C18_QueueMatchesMask ==
  LazyPhase =>
    /\ DOMAIN pq \cap MaskSet = {}
    /\ pc \in {"lazy", "pop", "lazy_remove"} => DOMAIN pq = Unselected

\* C18, witness: a lazy round whose queue held one entry left the loop by
\* popping best_idx itself, put it back and removed it.
C18_Witness ==
  /\ pc = "lazy_commit"
  /\ best_idx \in Unselected
  /\ DOMAIN pq = {}

\* C15: in a lazy round that starts with a queue that is not empty, no item's
\* gain is recomputed twice, every pop but the one that leaves the loop
\* recomputes a gain, and the loop is left after at most (number of queue
\* entries + 1) pops; the queue is found empty only by the first pop of a
\* round.
C15_LazyLoopBounded ==
  /\ pc \in {"pop", "lazy_remove"} =>
       /\ Distinct(recomputed)
       /\ pops <= Cardinality(DOMAIN pq) + 1
       /\ pc = "pop" => (pops = Len(recomputed) /\ pops <= Cardinality(DOMAIN pq))
       /\ pc = "lazy_remove" => pops = Len(recomputed) + 1
  /\ (pc = "failed" /\ err = "EmptyQueue") => pops = 0

\* C15, witness: a round with at least two queue entries left its loop with
\* the pop that followed the recomputation of every entry.
C15_Witness ==
  /\ pc = "lazy_remove"
  /\ Cardinality(DOMAIN pq) >= 2
  /\ pops = Cardinality(DOMAIN pq) + 1

\* C19: the call with n_samples = k2 <= n ends as FitRanking(k2) says, and
\* when it returns, for every k1 with n_greedy_samples <= k1 <= k2 for which
\* the call with n_samples = k1 returns, that call's ranking is a prefix of
\* the ranking returned for k2.
C19_NestedRankings ==
  (Finished /\ Len(results) = 1 /\ n_samples <= NRows(data)) =>
    /\ pc = "failed" => FitRanking(n_samples) = <<NoneIdx>>
    /\ pc = "returned" =>
         /\ self_ranking = FitRanking(n_samples)
         /\ \A k1 \in n_greedy_samples..n_samples :
              LET r1 == FitRanking(k1)
              IN  r1 # <<NoneIdx>> =>
                    (Len(r1) = k1 /\ r1 = SubSeq(self_ranking, 1, k1))

\* C19, witness: a call returned after two lazy rounds, and the call with
\* one lazy round less returns too.
C19_Witness ==
  /\ pc = "returned"
  /\ n_samples <= NRows(data)
  /\ n_samples >= n_greedy_samples + 2
  /\ FitRanking(n_samples - 1) # <<NoneIdx>>

\* C17, the states of a dense round: while the workers run, the slot of an
\* item whose worker has run holds that item's gain (0 for a masked item) and
\* every other slot holds 0, whatever the order of the workers; when the
\* kernel has returned, the gain vector and the selected index are those of
\* the loop run in order.
C17_RoundState ==
  /\ pc = "kernel" =>
       \A idx \in Items :
         gains[idx + 1] =
           IF idx \in pending \/ mask[idx + 1] = 1 THEN 0
           ELSE KernelGain(kind, func, X, current_values,
                           current_concave_values, idx)
  /\ pc = "dense_commit" =>
       /\ pending = {}
       /\ gains = KernelGains(kind, func, X, current_values,
                              current_concave_values, mask)
       /\ best_idx = ArgMax(gains)

\* C17, the steps of a dense round: a step taken while the kernel runs
\* writes neither the dataset, the aggregate, the mask nor the ranking, and
\* writes no slot of the gain vector but the slot of the one worker that
\* ran; the aggregate and the mask change only when no worker is left and
\* the winner is chosen.
C17_RoundStep ==
  /\ pc = "kernel" =>
       /\ X' = X
       /\ current_values' = current_values
       /\ mask' = mask
       /\ ranking' = ranking
       /\ \A idx \in Items :
            gains'[idx + 1] # gains[idx + 1] => pending \ pending' = {idx}
  /\ (pc # "idle" /\ (current_values' # current_values \/ mask' # mask)) =>
       (pending = {} /\ pc \in {"dense_commit", "lazy_commit"})

\* C17: within one dense round, with one worker per item in any
\* interleaving: each worker writes only its own slot of the gain vector, no
\* worker writes the dataset, the aggregate or the mask, these change only
\* after all workers have finished and the winner is chosen, and the gain
\* vector and the selected index are the same under every interleaving.
C17_WorkersIndependent == []C17_RoundState /\ [][C17_RoundStep]_vars

\* C17, witness: in a round after the first, the workers of items 2 and 1
\* have run before the worker of item 0, and a gain has been written.
C17_Witness ==
  /\ pc = "kernel"
  /\ i >= 1
  /\ pending = {0}
  /\ \E idx \in Items : gains[idx + 1] > 0

=============================================================================
